---- MODULE Spec2Model ----
(***************************************************************************)
(* Model of the LocalStack MCP server's state manager (state-manager.ts):  *)
(* exportState / importState against a local emulator and a file system.   *)
(*                                                                         *)
(* JavaScript values are tagged records: [t |-> "undefined"], "null",      *)
(* "arr" (v a sequence), "str" (v a sequence of one-character tokens),     *)
(* "obj" (v a record).  A JavaScript object whose key order matters (the   *)
(* snapshot's services mapping) is a sequence of [k, v] entries.           *)
(***************************************************************************)
EXTENDS Integers, Sequences, FiniteSets, TLC

\* ---------------------------------------------------------------- bounds
MaxServices == 2

\* ------------------------------------------------------------- universes
Kinds == {"s3", "dynamodb", "sqs", "sns", "lambda"}
ServiceNames == Kinds \cup {"S3", "ec2"}
SessionNames == {"s3", "sqs"}
BucketOrder == <<"a", "b">>
BucketNames == {BucketOrder[i] : i \in DOMAIN BucketOrder}
QueueOrder == <<"q", "h">>
QueueNames == {QueueOrder[i] : i \in DOMAIN QueueOrder}
OtherOrder == <<"r1">>
DefaultPath == "localstack-state-ts.yml"
UserPath == "state.yml"
ReadOnlyPath == "/ro/state.yml"
FilePaths == {DefaultPath, UserPath}

\* ------------------------------------------------------ JavaScript values
Undefined == [t |-> "undefined"]
Null == [t |-> "null"]
Arr(s) == [t |-> "arr", v |-> s]
Str(s) == [t |-> "str", v |-> s]
Obj(r) == [t |-> "obj", v |-> r]
Tok(s) == Str(<<s>>)

\* JavaScript truthiness of a value (undefined, null and "" are falsy).
Truthy(x) == /\ x.t # "undefined"
             /\ x.t # "null"
             /\ ~(x.t = "str" /\ x.v = <<>>)

\* x?.length || 0  (arrays and strings have a length; objects do not).
LengthOr0(x) == IF x.t \in {"arr", "str"} THEN Len(x.v) ELSE 0

\* x || []
OrEmptyArr(x) == IF Truthy(x) THEN x ELSE Arr(<<>>)

\* String.prototype.toLowerCase over the service names in use.
toLowerCase(s) == IF s = "S3" THEN "s3" ELSE s

\* obj[k] = v on an insertion-ordered object: an existing key keeps its place.
PutKey(obj, k, v) ==
  IF \E i \in DOMAIN obj : obj[i].k = k
  THEN [i \in DOMAIN obj |-> IF obj[i].k = k THEN [k |-> k, v |-> v] ELSE obj[i]]
  ELSE Append(obj, [k |-> k, v |-> v])

RECURSIVE SumCounts(_)
SumCounts(entries) ==
  IF entries = <<>> THEN 0
  ELSE entries[1].v.resourceCount + SumCounts(Tail(entries))

Take(s, n) == SubSeq(s, 1, IF n < Len(s) THEN n ELSE Len(s))

\* --------------------------------------------------------------- emulator
\* em  = [reachable, buckets, queues, others, strict]  (the emulator)
\* net = [faults, collapse]  (what happens to this call's requests)
Req(op, arg) == [op |-> op, arg |-> arg]

\* axios rejects: connection refused, or this request hits a fault.
Fails(em, net, r) == ~em.reachable \/ r \in net.faults

\* An XML list as the client sees it: absent, one bare element, or an array.
Shape(net, s) ==
  IF s = <<>> THEN Undefined
  ELSE IF Len(s) = 1 /\ net.collapse THEN [t |-> "one", v |-> s[1]]
  ELSE Arr(s)

\* A JSON list as the client sees it: an array, or absent when empty.
ShapeJson(net, s) == IF s = <<>> /\ net.collapse THEN Undefined ELSE Arr(s)

BucketList(em) == SelectSeq(BucketOrder, LAMBDA b : b \in em.buckets)
QueueUrl(n) == <<"h", "/", n>>
QueueNameList(em) == SelectSeq(QueueOrder, LAMBDA q : q \in em.queues)
QueueList(em) == [i \in DOMAIN QueueNameList(em) |-> Str(QueueUrl(QueueNameList(em)[i]))]
OtherList(em) == Take(OtherOrder, em.others)
ObjectsOf(b) == IF b = "a" THEN <<"k">> ELSE <<>>
ItemCountOf(tbl) == 2

RECURSIVE Flatten(_)
Flatten(ss) == IF ss = <<>> THEN <<>> ELSE ss[1] \o Flatten(Tail(ss))

\* -------------------------------------------------------------- extractors
\* Every extractor returns [thrown, state, log]: whether it raised, the
\* ServiceState it produced ([t, items, resourceCount], items standing for
\* the kind's list field), and the requests it issued.
State(items, n) == [t |-> "state", items |-> items, resourceCount |-> n]
EmptyState == State(Arr(<<>>), 0)
Degraded(r) == [thrown |-> FALSE, state |-> EmptyState, log |-> <<r>>]

\* Array.isArray(x) ? x : [x], under the guard that x is truthy.
\* Mutant: a lone element is not wrapped into an array.
ArrayOf_NoWrap(x) == IF Truthy(x) /\ x.t = "arr" THEN x.v ELSE <<>>

ArrayOf(x) == IF ~Truthy(x) THEN <<>> ELSE IF x.t = "arr" THEN x.v ELSE <<x.v>>

\* A lone element of a list arrives as the element itself.
Bare(shaped) == IF shaped.t = "one" THEN shaped.v ELSE shaped

extractS3ObjectMetadata(contents) ==
  [i \in DOMAIN ArrayOf(contents) |-> [key |-> ArrayOf(contents)[i]]]

\* One pass of the bucket loop of exportS3State: [info, log].
BucketInfo(em, net, b, includeData) ==
  IF ~includeData THEN [info |-> [name |-> b, objects |-> <<>>], log |-> <<>>]
  ELSE IF Fails(em, net, Req("ListObjects", b))
       THEN [info |-> [name |-> b, objects |-> <<>>], log |-> <<Req("ListObjects", b)>>]
       ELSE [info |-> [name |-> b,
                       objects |-> extractS3ObjectMetadata(Shape(net, ObjectsOf(b)))],
             log |-> <<Req("ListObjects", b)>>]

\* The state built by a loop that pushes one info per pass and counts it.
Pushed(r, passes) ==
  [thrown |-> FALSE,
   state |-> State(Arr([i \in DOMAIN passes |-> passes[i].info]), Len(passes)),
   log |-> <<r>> \o Flatten([i \in DOMAIN passes |-> passes[i].log])]

\* Mutant: the push is inside the try, a bucket whose object listing failed
\* is left out.
S3Passes_PushInsideTry(em, net, includeData, bucketsArray) ==
  [i \in DOMAIN SelectSeq(bucketsArray,
                  LAMBDA b : ~(includeData /\ Fails(em, net, Req("ListObjects", b)))) |->
     BucketInfo(em, net,
                SelectSeq(bucketsArray,
                  LAMBDA b : ~(includeData /\ Fails(em, net, Req("ListObjects", b))))[i],
                includeData)]

S3Passes(em, net, includeData, bucketsArray) ==
  [i \in DOMAIN bucketsArray |-> BucketInfo(em, net, bucketsArray[i], includeData)]

exportS3State(em, net, includeData) ==
  IF Fails(em, net, Req("ListBuckets", ""))
  THEN [thrown |-> TRUE, state |-> EmptyState, log |-> <<Req("ListBuckets", "")>>]
  ELSE Pushed(Req("ListBuckets", ""),
              S3Passes(em, net, includeData, ArrayOf(Shape(net, BucketList(em)))))

getDynamoDBItemCount(em, net, tableName) ==
  IF Fails(em, net, Req("Scan", tableName)) THEN 0 ELSE ItemCountOf(tableName)

\* Mutant: the item count is fetched whatever the detail flag is.
getDynamoDBTableInfo_AlwaysCounts(em, net, tableName, includeData) ==
  IF Fails(em, net, Req("DescribeTable", tableName))
  THEN [info |-> [tableName |-> tableName, schema |-> "null", itemCount |-> 0],
        log |-> <<Req("DescribeTable", tableName)>>]
  ELSE [info |-> [tableName |-> tableName, schema |-> "Table",
                  itemCount |-> getDynamoDBItemCount(em, net, tableName)],
        log |-> <<Req("DescribeTable", tableName), Req("Scan", tableName)>>]

\* [info, log]
getDynamoDBTableInfo(em, net, tableName, includeData) ==
  IF Fails(em, net, Req("DescribeTable", tableName))
  THEN [info |-> [tableName |-> tableName, schema |-> "null", itemCount |-> 0],
        log |-> <<Req("DescribeTable", tableName)>>]
  ELSE [info |-> [tableName |-> tableName, schema |-> "Table",
                  itemCount |-> IF includeData
                                THEN getDynamoDBItemCount(em, net, tableName)
                                ELSE 0],
        log |-> IF includeData
                THEN <<Req("DescribeTable", tableName), Req("Scan", tableName)>>
                ELSE <<Req("DescribeTable", tableName)>>]

TablePasses(em, net, includeData, TableNames) ==
  [i \in DOMAIN TableNames |-> getDynamoDBTableInfo(em, net, TableNames[i], includeData)]

exportDynamoDBState(em, net, includeData) ==
  IF Fails(em, net, Req("ListTables", "")) THEN Degraded(Req("ListTables", ""))
  ELSE Pushed(Req("ListTables", ""),
              TablePasses(em, net, includeData, OrEmptyArr(ShapeJson(net, OtherList(em))).v))

\* { list: field || [], resourceCount: field?.length || 0 }
Listed(r, field) ==
  [thrown |-> FALSE, state |-> State(OrEmptyArr(field), LengthOr0(field)), log |-> <<r>>]

exportSQSState(em, net) ==
  IF Fails(em, net, Req("ListQueues", "")) THEN Degraded(Req("ListQueues", ""))
  ELSE Listed(Req("ListQueues", ""), Bare(Shape(net, QueueList(em))))

TopicList(em) == [i \in DOMAIN OtherList(em) |-> Obj([TopicArn |-> OtherList(em)[i]])]

exportSNSState(em, net) ==
  IF Fails(em, net, Req("ListTopics", "")) THEN Degraded(Req("ListTopics", ""))
  ELSE Listed(Req("ListTopics", ""), Bare(Shape(net, TopicList(em))))

\* { functions: Functions?.map(...) || [], resourceCount: Functions?.length || 0 }
Mapped(r, Functions) ==
  [thrown |-> FALSE,
   state |-> State(IF Functions.t = "arr"
                   THEN Arr([i \in DOMAIN Functions.v |-> [functionName |-> Functions.v[i]]])
                   ELSE Arr(<<>>),
                   LengthOr0(Functions)),
   log |-> <<r>>]

exportLambdaState(em, net) ==
  IF Fails(em, net, Req("ListFunctions", "")) THEN Degraded(Req("ListFunctions", ""))
  ELSE Mapped(Req("ListFunctions", ""), ShapeJson(net, OtherList(em)))

\* The default case returns null: a state that is Null, and no request.
exportServiceState(em, net, service, includeData) ==
  CASE toLowerCase(service) = "s3" -> exportS3State(em, net, includeData)
    [] toLowerCase(service) = "dynamodb" -> exportDynamoDBState(em, net, includeData)
    [] toLowerCase(service) = "sqs" -> exportSQSState(em, net)
    [] toLowerCase(service) = "sns" -> exportSNSState(em, net)
    [] toLowerCase(service) = "lambda" -> exportLambdaState(em, net)
    [] OTHER -> [thrown |-> FALSE, state |-> Null, log |-> <<>>]

\* ------------------------------------------------------ snapshot file codec
\* A file is absent, unparseable bytes, or YAML text held as its lines in
\* document order.  Line kinds: version, timestamp, services (val "{}" for
\* the empty flow mapping, "" for a block header), svc (one services entry),
\* metadata (block header), localstackVersion, exportedServices,
\* totalResources.
Num(n) == [t |-> "num", v |-> n]
Absent == [t |-> "absent", lines |-> <<>>]
Garbage == [t |-> "garbage", lines |-> <<>>]
Text(lines) == [t |-> "text", lines |-> lines]
Line(k, key, val) == [k |-> k, key |-> key, val |-> val]

\* yaml.stringify(stateData): keys in the order of the object literal.
stringify(stateData) ==
  Text(<<Line("version", "", Tok(stateData.version)),
         Line("timestamp", "", Tok("now")),
         Line("services", "", IF stateData.services = <<>> THEN Tok("{}") ELSE Str(<<>>))>>
       \o [i \in DOMAIN stateData.services |->
             Line("svc", stateData.services[i].k, stateData.services[i].v)]
       \o <<Line("metadata", "", Str(<<>>)),
            Line("localstackVersion", "", Tok(stateData.metadata.localstackVersion)),
            Line("exportedServices", "", Arr(stateData.metadata.exportedServices)),
            Line("totalResources", "", Num(stateData.metadata.totalResources))>>)

FileSize(content) == Len(content.lines)

\* ------------------------------------------------------------------ export
NoResourcesAdvice == "No resources found - ensure LocalStack services are running and populated"
LargeExportAdvice == "Large state export - consider splitting by service for better performance"
ShareAdvice == "Share this file with team members to replicate the environment"
VersionControlAdvice == "Store in version control to track environment changes"
LargeExportThreshold == 100

\* Mutant: the empty-export advisory is never produced.
generateExportRecommendations_NoEmptyAdvice(stateData) ==
  (IF stateData.metadata.totalResources > LargeExportThreshold
   THEN <<LargeExportAdvice>> ELSE <<>>)
  \o <<ShareAdvice, VersionControlAdvice>>

generateExportRecommendations(stateData) ==
  (IF stateData.metadata.totalResources = 0 THEN <<NoResourcesAdvice>> ELSE <<>>)
  \o (IF stateData.metadata.totalResources > LargeExportThreshold
      THEN <<LargeExportAdvice>> ELSE <<>>)
  \o <<ShareAdvice, VersionControlAdvice>>

\* The version probe's health request never raises.
getLocalStackVersion(em, net) ==
  IF Fails(em, net, Req("Health", "")) THEN "unknown" ELSE "3.0"

\* One pass of the for-loop of performStateExport, r being what
\* exportServiceState returned.  acc = [thrown, services, total, log].
ExportStep(acc, service, r) ==
  [thrown |-> r.thrown,
   services |-> IF ~r.thrown /\ r.state.t # "null"
                THEN PutKey(acc.services, service, r.state) ELSE acc.services,
   total |-> IF ~r.thrown /\ r.state.t # "null"
             THEN acc.total + r.state.resourceCount ELSE acc.total,
   log |-> acc.log \o r.log]

\* The for-loop of performStateExport; an extractor that raises ends it.
RECURSIVE ExportLoop(_, _, _, _, _)
ExportLoop(em, net, services, includeData, acc) ==
  IF services = <<>> \/ acc.thrown THEN acc
  ELSE ExportLoop(em, net, Tail(services), includeData,
         ExportStep(acc, services[1],
                    exportServiceState(em, net, services[1], includeData)))

NoSummary == [exportPath |-> "", servicesExported |-> 0, totalResources |-> 0,
              fileSize |-> 0, recommendations |-> <<>>]

ExportRaised(msg, fsys, log) ==
  [thrown |-> TRUE, error |-> msg, path |-> "", summary |-> NoSummary,
   files |-> fsys, wrote |-> FALSE, log |-> log]

\* The snapshot object after the loop.
StateData(options, version, loop) ==
  [version |-> "1.0",
   services |-> loop.services,
   metadata |-> [localstackVersion |-> version,
                 exportedServices |-> options.services,
                 totalResources |-> loop.total]]

\* fs.writeFile(exportPath, yamlContent), fs.stat and the summary.
WriteSnapshot(fsys, services, exportPath, stateData, total, log) ==
  IF exportPath \notin DOMAIN fsys
  THEN ExportRaised("EACCES: permission denied", fsys, log)
  ELSE [thrown |-> FALSE, error |-> "", path |-> exportPath,
        summary |-> [exportPath |-> exportPath,
                     servicesExported |-> Len(services),
                     totalResources |-> total,
                     fileSize |-> FileSize(stringify(stateData)),
                     recommendations |-> generateExportRecommendations(stateData)],
        files |-> [fsys EXCEPT ![exportPath] = stringify(stateData)],
        wrote |-> TRUE, log |-> log]

\* Mutant: what the loop gathered is written out before the failure is
\* reported.
AfterExportLoop_WritesPartial(fsys, options, version, loop) ==
  IF loop.thrown
  THEN [ExportRaised("Request failed", fsys, loop.log) EXCEPT
          !.files = [fsys EXCEPT ![UserPath] = stringify(StateData(options, version, loop))],
          !.wrote = TRUE]
  ELSE WriteSnapshot(fsys, options.services,
                     IF options.outputPath = "" THEN DefaultPath ELSE options.outputPath,
                     StateData(options, version, loop), loop.total, loop.log)

\* performStateExport from the end of the loop on.
AfterExportLoop(fsys, options, version, loop) ==
  IF loop.thrown THEN ExportRaised("Request failed", fsys, loop.log)
  ELSE WriteSnapshot(fsys, options.services,
                     IF options.outputPath = "" THEN DefaultPath ELSE options.outputPath,
                     StateData(options, version, loop), loop.total, loop.log)

\* [thrown, error, path, summary, files, wrote, log]
performStateExport(em, net, fsys, options) ==
  AfterExportLoop(fsys, options, getLocalStackVersion(em, net),
    ExportLoop(em, net, options.services, options.includeData,
               [thrown |-> FALSE, services |-> <<>>, total |-> 0,
                log |-> <<Req("Health", "")>>]))

getExportTroubleshootingTips ==
  <<"Ensure LocalStack is running and accessible",
    "Check that specified services are enabled",
    "Verify sufficient disk space for export file",
    "Ensure write permissions for output directory">>

\* The try/catch of exportState around r, what performStateExport did.
\* result = [op, raised, success, error, troubleshooting, exportPath,
\* summary]; raised says an exception escaped to the caller.
ExportOutcome(r) ==
  [result |-> IF r.thrown
              THEN [op |-> "export", raised |-> FALSE, success |-> FALSE,
                    error |-> r.error,
                    troubleshooting |-> getExportTroubleshootingTips,
                    exportPath |-> "", summary |-> NoSummary]
              ELSE [op |-> "export", raised |-> FALSE, success |-> TRUE,
                    error |-> "", troubleshooting |-> <<>>,
                    exportPath |-> r.path, summary |-> r.summary],
   files |-> r.files, wrote |-> r.wrote, log |-> r.log]

exportState(em, net, fsys, options) ==
  ExportOutcome(performStateExport(em, net, fsys, options))

\* yaml.parse of text lines: a key with no line is undefined, a block header
\* with nothing under it is null, an empty document is null (isMap FALSE).
HasLine(lines, k) == \E i \in DOMAIN lines : lines[i].k = k
ValOf(lines, k) ==
  IF HasLine(lines, k) THEN lines[CHOOSE i \in DOMAIN lines : lines[i].k = k].val
  ELSE Undefined
SvcEntries(svcLines) ==
  [i \in DOMAIN svcLines |-> [k |-> svcLines[i].key, v |-> svcLines[i].val]]

ParseLines(lines) ==
  [isMap |-> lines # <<>>,
   version |-> ValOf(lines, "version"),
   services |->
     IF ~HasLine(lines, "services") THEN Undefined
     ELSE IF Truthy(ValOf(lines, "services")) THEN Obj(<<>>)
     ELSE IF ~HasLine(lines, "svc") THEN Null
     ELSE Obj(SvcEntries(SelectSeq(lines, LAMBDA l : l.k = "svc"))),
   metadata |->
     IF ~HasLine(lines, "metadata") THEN Undefined
     ELSE IF ~\E k \in {"localstackVersion", "exportedServices", "totalResources"} :
                HasLine(lines, k)
          THEN Null
          ELSE Obj([totalResources |-> ValOf(lines, "totalResources")])]

\* yaml.parse(content): [thrown, doc].
parse(content) ==
  IF content.t # "text" THEN [thrown |-> TRUE, doc |-> [isMap |-> FALSE]]
  ELSE [thrown |-> FALSE, doc |-> ParseLines(content.lines)]

\* --------------------------------------------------------- reconstructors
\* Reconstructors return [thrown, em, imported, skipped, log].
Thrown(em) == [thrown |-> TRUE, em |-> em, imported |-> 0, skipped |-> 0, log |-> <<>>]
Counted(em, i, s, log) ==
  [thrown |-> FALSE, em |-> em, imported |-> i, skipped |-> s, log |-> log]

\* for (const x of v): the elements, or iterable = FALSE (a TypeError).
Iterate(x) ==
  CASE x.t = "arr" -> [iterable |-> TRUE, elems |-> x.v]
    [] x.t = "str" -> [iterable |-> TRUE, elems |-> [i \in DOMAIN x.v |-> Tok(x.v[i])]]
    [] OTHER -> [iterable |-> FALSE, elems |-> <<>>]

\* PUT /<name> at the emulator: [ok, em].
CreateBucket(em, net, name) ==
  IF \/ Fails(em, net, Req("CreateBucket", name))
     \/ name \notin BucketNames
     \/ (name \in em.buckets /\ em.strict)
  THEN [ok |-> FALSE, em |-> em]
  ELSE [ok |-> TRUE, em |-> [em EXCEPT !.buckets = @ \cup {name}]]

\* Action=CreateQueue at the emulator: [ok, em].
CreateQueue(em, net, name) ==
  IF Fails(em, net, Req("CreateQueue", name)) \/ name \notin QueueNames
  THEN [ok |-> FALSE, em |-> em]
  ELSE [ok |-> TRUE, em |-> [em EXCEPT !.queues = @ \cup {name}]]

\* try { await create; imported++ } catch { skipped++ }, c being what the
\* create request r did.
Mutant_TallyAllImported(acc, r, c) ==
  Counted(c.em, acc.imported + 1, acc.skipped, Append(acc.log, r))

Tally(acc, r, c) ==
  Counted(c.em,
          IF c.ok THEN acc.imported + 1 ELSE acc.imported,
          IF c.ok THEN acc.skipped ELSE acc.skipped + 1,
          Append(acc.log, r))

\* An element whose property read or method call raises inside the try.
Skip(acc) == Counted(acc.em, acc.imported, acc.skipped + 1, acc.log)

IsNull(x) == "t" \in DOMAIN x /\ x.t = "null"
NameOf(bucket) == IF "name" \in DOMAIN bucket THEN bucket.name ELSE "undefined"

RECURSIVE S3Loop(_, _, _)
S3Loop(net, buckets, acc) ==
  IF buckets = <<>> THEN acc
  ELSE S3Loop(net, Tail(buckets),
         IF IsNull(buckets[1]) THEN Skip(acc)
         ELSE Tally(acc, Req("CreateBucket", NameOf(buckets[1])),
                    CreateBucket(acc.em, net, NameOf(buckets[1]))))

\* queueUrl.split('/').pop(): the text after the last slash.
QueueNameOf(url) ==
  IF url = <<>> \/ url[Len(url)] = "/" THEN "" ELSE url[Len(url)]

RECURSIVE SQSLoop(_, _, _)
SQSLoop(net, urls, acc) ==
  IF urls = <<>> THEN acc
  ELSE SQSLoop(net, Tail(urls),
         IF urls[1].t # "str" THEN Skip(acc)
         ELSE Tally(acc, Req("CreateQueue", QueueNameOf(urls[1].v)),
                    CreateQueue(acc.em, net, QueueNameOf(urls[1].v))))

\* The loop of importS3State / importSQSState over what `list || []` gave.
ForEach(kind, em, net, it) ==
  IF ~it.iterable THEN Thrown(em)
  ELSE IF kind = "s3" THEN S3Loop(net, it.elems, Counted(em, 0, 0, <<>>))
  ELSE SQSLoop(net, it.elems, Counted(em, 0, 0, <<>>))

importS3State(em, net, s3State) ==
  IF s3State.t = "null" THEN Thrown(em)
  ELSE ForEach("s3", em, net, Iterate(OrEmptyArr(s3State.items)))

importDynamoDBState(em, net, dynamoState) ==
  IF dynamoState.t = "null" THEN Thrown(em)
  ELSE Counted(em, 0, LengthOr0(dynamoState.items), <<>>)

importSQSState(em, net, sqsState) ==
  IF sqsState.t = "null" THEN Thrown(em)
  ELSE ForEach("sqs", em, net, Iterate(OrEmptyArr(sqsState.items)))

importSNSState(em, net, snsState) ==
  IF snsState.t = "null" THEN Thrown(em)
  ELSE Counted(em, 0, LengthOr0(snsState.items), <<>>)

importLambdaState(em, net, lambdaState) ==
  IF lambdaState.t = "null" THEN Thrown(em)
  ELSE Counted(em, 0, LengthOr0(lambdaState.items), <<>>)

importServiceState(em, net, service, serviceState) ==
  CASE toLowerCase(service) = "s3" -> importS3State(em, net, serviceState)
    [] toLowerCase(service) = "dynamodb" -> importDynamoDBState(em, net, serviceState)
    [] toLowerCase(service) = "sqs" -> importSQSState(em, net, serviceState)
    [] toLowerCase(service) = "sns" -> importSNSState(em, net, serviceState)
    [] toLowerCase(service) = "lambda" -> importLambdaState(em, net, serviceState)
    [] OTHER -> Counted(em, 0, 0, <<>>)

\* ------------------------------------------------------------------ import
NotAccessible == "LocalStack is not accessible. Ensure container is running and healthy."
CurrentVersion == "1.0"
FailedAdvice == "Some resources failed to import - check LocalStack logs for details"
SkippedAdvice == "Some resources were skipped - they may already exist or require manual creation"
VersionAdvice == "State file version mismatch - some features may not work correctly"
VerifyAdvice == "Verify imported resources match your expectations"
TestAdvice == "Test application functionality after import"

\* Mutant: the version comparison is dropped.
generateImportRecommendations_NoVersionCheck(summary, stateData) ==
  (IF Len(summary.errors) > 0 THEN <<FailedAdvice>> ELSE <<>>)
  \o (IF summary.skippedResources > 0 THEN <<SkippedAdvice>> ELSE <<>>)
  \o <<VerifyAdvice, TestAdvice>>

generateImportRecommendations(summary, stateData) ==
  (IF Len(summary.errors) > 0 THEN <<FailedAdvice>> ELSE <<>>)
  \o (IF summary.skippedResources > 0 THEN <<SkippedAdvice>> ELSE <<>>)
  \o (IF stateData.version # Tok(CurrentVersion) THEN <<VersionAdvice>> ELSE <<>>)
  \o <<VerifyAdvice, TestAdvice>>

\* Mutant: the catch around a reconstructor swallows the exception without
\* recording it.
ImportStep_SilentCatch(acc, service, r) ==
  IF r.thrown
  THEN acc
  ELSE [em |-> r.em,
        imported |-> acc.imported + r.imported,
        skipped |-> acc.skipped + r.skipped,
        errors |-> acc.errors,
        log |-> acc.log \o r.log]

\* One pass of the for-loop of performStateImport, r being what
\* importServiceState returned.  acc = [em, imported, skipped, errors, log].
ImportStep(acc, service, r) ==
  IF r.thrown
  THEN [acc EXCEPT !.errors = Append(@, <<"Failed to import", service>>)]
  ELSE [em |-> r.em,
        imported |-> acc.imported + r.imported,
        skipped |-> acc.skipped + r.skipped,
        errors |-> acc.errors,
        log |-> acc.log \o r.log]

RECURSIVE ImportLoop(_, _, _)
ImportLoop(net, entries, acc) ==
  IF entries = <<>> THEN acc
  ELSE ImportLoop(net, Tail(entries),
         ImportStep(acc, entries[1].k,
                    importServiceState(acc.em, net, entries[1].k, entries[1].v)))

NoImportSummary == [version |-> Undefined, servicesFound |-> <<>>,
                    totalResources |-> Undefined, importedResources |-> 0,
                    skippedResources |-> 0, errors |-> <<>>]

ImportRaised(msg, em, log) ==
  [thrown |-> TRUE, error |-> msg, summary |-> NoImportSummary,
   recommendations |-> <<>>, em |-> em, log |-> log]

ImportSummary(stateData, loop) ==
  [version |-> stateData.version,
   servicesFound |-> [i \in DOMAIN stateData.services.v |-> stateData.services.v[i].k],
   totalResources |-> stateData.metadata.v.totalResources,
   importedResources |-> loop.imported,
   skippedResources |-> loop.skipped,
   errors |-> loop.errors]

\* performStateImport from the end of the loop on.
AfterImportLoop(stateData, loop) ==
  [thrown |-> FALSE, error |-> "", summary |-> ImportSummary(stateData, loop),
   recommendations |->
     generateImportRecommendations(ImportSummary(stateData, loop), stateData),
   em |-> loop.em, log |-> loop.log]

\* Mutant: the connectivity check is missing, the loop starts at once.
AfterSummary_NoConnectivityCheck(em, net, stateData) ==
  AfterImportLoop(stateData,
    ImportLoop(net, stateData.services.v,
               [em |-> em, imported |-> 0, skipped |-> 0, errors |-> <<>>,
                log |-> <<>>]))

\* performStateImport from validateLocalStackConnectivity on: the health
\* request, then the loop over the document's entries.
AfterSummary(em, net, stateData) ==
  IF Fails(em, net, Req("Health", ""))
  THEN ImportRaised(NotAccessible, em, <<Req("Health", "")>>)
  ELSE AfterImportLoop(stateData,
         ImportLoop(net, stateData.services.v,
                    [em |-> em, imported |-> 0, skipped |-> 0, errors |-> <<>>,
                     log |-> <<Req("Health", "")>>]))

\* Mutant: totalResources is read with optional chaining, a missing metadata
\* no longer raises.
AfterParse_OptionalMetadata(em, net, parsed) ==
  IF parsed.thrown THEN ImportRaised("YAMLParseError", em, <<>>)
  ELSE IF ~parsed.doc.isMap
       THEN ImportRaised("TypeError: Cannot read properties of null", em, <<>>)
  ELSE IF parsed.doc.services.t # "obj"
       THEN ImportRaised("TypeError: Cannot convert undefined or null to object", em, <<>>)
  ELSE IF parsed.doc.metadata.t # "obj"
       THEN AfterSummary(em, net,
              [parsed.doc EXCEPT !.metadata = Obj([totalResources |-> Undefined])])
  ELSE AfterSummary(em, net, parsed.doc)

\* performStateImport from the construction of importSummary on: reading
\* version of null, Object.keys of a missing services, totalResources of a
\* missing metadata each raise a TypeError.
AfterParse(em, net, parsed) ==
  IF parsed.thrown THEN ImportRaised("YAMLParseError", em, <<>>)
  ELSE IF ~parsed.doc.isMap
       THEN ImportRaised("TypeError: Cannot read properties of null", em, <<>>)
  ELSE IF parsed.doc.services.t # "obj"
       THEN ImportRaised("TypeError: Cannot convert undefined or null to object", em, <<>>)
  ELSE IF parsed.doc.metadata.t # "obj"
       THEN ImportRaised("TypeError: Cannot read properties of undefined", em, <<>>)
  ELSE AfterSummary(em, net, parsed.doc)

\* [thrown, error, summary, recommendations, em, log]
performStateImport(em, net, fsys, statePath) ==
  IF statePath \notin DOMAIN fsys \/ fsys[statePath].t = "absent"
  THEN ImportRaised("ENOENT: no such file or directory", em, <<>>)
  ELSE AfterParse(em, net, parse(fsys[statePath]))

getImportTroubleshootingTips ==
  <<"Verify state file exists and is readable",
    "Ensure LocalStack is running and healthy",
    "Check that target services are enabled",
    "Clear existing resources if conflicts occur">>

\* The try/catch of importState around r, what performStateImport did.
ImportOutcome(r) ==
  [result |-> IF r.thrown
              THEN [op |-> "import", raised |-> FALSE, success |-> FALSE,
                    error |-> r.error,
                    troubleshooting |-> getImportTroubleshootingTips,
                    summary |-> NoImportSummary, recommendations |-> <<>>]
              ELSE [op |-> "import", raised |-> FALSE, success |-> TRUE,
                    error |-> "", troubleshooting |-> <<>>,
                    summary |-> r.summary, recommendations |-> r.recommendations],
   em |-> r.em, log |-> r.log]

importState(em, net, fsys, statePath) ==
  ImportOutcome(performStateImport(em, net, fsys, statePath))

\* ------------------------------------------------------------------- state
VARIABLES
  em,      \* the emulator: [reachable, buckets, queues, others, strict]
  files,   \* the file system: path -> content
  call,    \* the inputs of the last tool call, and what it touched
  result,  \* what the last tool call returned
  log,     \* the requests the last tool call sent, in order
  prev,    \* the call and result before the last tool call
  phase,   \* position in the session: "fresh", "exported", "reset",
           \* "stopped", "damaged", "imported", "running", "returned"
  wire,    \* the requests sent to the emulator and not yet answered
  racers   \* the export calls in progress at the same time: caller -> [pc, ...]

vars == <<em, files, call, result, log, prev, phase, wire, racers>>

\* Sequences over S of length at most n.
RECURSIVE SeqsUpTo(_, _)
SeqsUpTo(S, n) ==
  IF n = 0 THEN {<<>>}
  ELSE LET shorter == SeqsUpTo(S, n - 1)
       IN shorter \cup {Append(q, x) : q \in {r \in shorter : Len(r) = n - 1}, x \in S}

\* The requests of one call that are rejected: none, or any one of them.
FaultSets(R) == {{}} \cup {{r} : r \in R}

Emulators ==
  [reachable : BOOLEAN, buckets : SUBSET BucketNames, queues : SUBSET QueueNames,
   others : 0..Len(OtherOrder), strict : BOOLEAN]

NoCall == [op |-> "none"]
NoResult == [op |-> "none", raised |-> FALSE, success |-> FALSE]
NoFiles == [p \in FilePaths |-> Absent]

\* The state after exportState(options) returned r.
ExportReturns(c, r) ==
  /\ result' = r.result
  /\ files' = r.files
  /\ log' = r.log
  /\ call' = [c EXCEPT !.wrote = r.wrote]
  /\ prev' = [call |-> call, result |-> result]
  /\ phase' = "exported"
  /\ UNCHANGED <<em, wire, racers>>

\* exportState(options), with this call's network conditions.
ExportState(services, includeData, outputPath, faults, collapse) ==
  ExportReturns([op |-> "export", services |-> services, includeData |-> includeData,
                 outputPath |-> outputPath, faults |-> faults, collapse |-> collapse,
                 pre |-> em, wrote |-> FALSE],
                exportState(em, [faults |-> faults, collapse |-> collapse], files,
                            [outputPath |-> outputPath, services |-> services,
                             includeData |-> includeData]))

\* Mutant: the import removes the snapshot file once it has read it.
ImportReturns_RemovesFile(c, r) ==
  /\ result' = r.result
  /\ em' = r.em
  /\ log' = r.log
  /\ call' = c
  /\ prev' = [call |-> call, result |-> result]
  /\ phase' = "imported"
  /\ files' = [p \in DOMAIN files |-> IF p = c.statePath THEN Absent ELSE files[p]]
  /\ UNCHANGED <<wire, racers>>

\* The state after importState(statePath) returned r.
ImportReturns(c, r) ==
  /\ result' = r.result
  /\ em' = r.em
  /\ log' = r.log
  /\ call' = c
  /\ prev' = [call |-> call, result |-> result]
  /\ phase' = "imported"
  /\ UNCHANGED <<files, wire, racers>>

\* importState(statePath), with this call's network conditions.
ImportState(statePath, faults) ==
  ImportReturns([op |-> "import", statePath |-> statePath, faults |-> faults,
                 pre |-> em, from |-> phase],
                importState(em, [faults |-> faults, collapse |-> FALSE], files, statePath))

\* ------------------------------------------------- one export call, any input
\* The emulators an export is tried on: zero, one or two buckets and queues.
\* A stopped emulator answers nothing, so its contents do not matter;
\* conflict handling is not used by export.
ExportEmulators ==
  {e \in Emulators :
     /\ e.strict
     /\ e.buckets \in {{BucketOrder[i] : i \in 1..n} : n \in 0..Len(BucketOrder)}
     /\ e.queues \in {{QueueOrder[i] : i \in 1..n} : n \in 0..Len(QueueOrder)}
     /\ ~e.reachable => (e.buckets = {} /\ e.queues = {} /\ e.others = 0)}

\* The requests a call sends when none of them hits a fault.
Range(q) == {q[i] : i \in DOMAIN q}
ExportWould(services, includeData, collapse) ==
  Range(ExportLoop(em, [faults |-> {}, collapse |-> collapse], services, includeData,
                   [thrown |-> FALSE, services |-> <<>>, total |-> 0,
                    log |-> <<Req("Health", "")>>]).log)

InitExport ==
  /\ em \in ExportEmulators
  /\ files = NoFiles
  /\ call = NoCall
  /\ result = NoResult
  /\ log = <<>>
  /\ prev = [call |-> NoCall, result |-> NoResult]
  /\ phase = "fresh"
  /\ wire = <<>>
  /\ racers = <<>>

ExportCall ==
  /\ phase = "fresh"
  /\ \E services \in SeqsUpTo(ServiceNames, MaxServices), includeData \in BOOLEAN,
        outputPath \in {"", UserPath, ReadOnlyPath}, collapse \in BOOLEAN :
       \E faults \in FaultSets(ExportWould(services, includeData, collapse)) :
       ExportState(services, includeData, outputPath, faults, collapse)

NextExport == ExportCall

SpecExport == InitExport /\ [][NextExport]_vars

\* ------------------------------------------------ one import call, any input
\* The services mappings of the snapshot files an import is tried on: what
\* export writes, and what a hand-edited file may hold.
BucketRec(b) == [name |-> b, objects |-> <<>>]
DocServices ==
  {<<>>,
   <<[k |-> "s3", v |-> State(Arr(<<BucketRec("a")>>), 1)]>>,
   <<[k |-> "s3", v |-> State(Arr(<<BucketRec("a"), BucketRec("b")>>), 2)]>>,
   <<[k |-> "s3", v |-> State(Arr(<<BucketRec("b"), BucketRec("b")>>), 2)]>>,
   <<[k |-> "s3", v |-> State(Undefined, 0)]>>,
   <<[k |-> "s3", v |-> Null], [k |-> "sqs", v |-> State(Arr(<<Str(QueueUrl("q"))>>), 1)]>>,
   <<[k |-> "sqs", v |-> State(Str(QueueUrl("q")), 3)]>>,
   <<[k |-> "sqs", v |-> State(Arr(<<Str(QueueUrl("q")), Str(QueueUrl("h"))>>), 2)],
     [k |-> "S3", v |-> State(Arr(<<BucketRec("b")>>), 1)]>>,
   <<[k |-> "dynamodb", v |-> State(Arr(<<[tableName |-> "r1"]>>), 1)],
     [k |-> "sns", v |-> State(Obj([TopicArn |-> "r1"]), 0)],
     [k |-> "lambda", v |-> State(Arr(<<[functionName |-> "r1"]>>), 1)]>>,
   <<[k |-> "ec2", v |-> State(Arr(<<BucketRec("a")>>), 1)],
     [k |-> "s3", v |-> State(Arr(<<BucketRec("a")>>), 1)]>>}

FullDocs ==
  {stringify([version |-> ver, services |-> svcs,
              metadata |-> [localstackVersion |-> "3.0", exportedServices |-> <<>>,
                            totalResources |-> SumCounts(SelectSeq(svcs, LAMBDA e : e.v.t # "null"))]]) :
     ver \in {CurrentVersion, "2.0"}, svcs \in DocServices}

\* A file cut short after any of its lines.
Prefixes(doc) == {Text(Take(doc.lines, n)) : n \in 0..(Len(doc.lines) - 1)}

Docs == FullDocs \cup UNION {Prefixes(d) : d \in FullDocs} \cup {Garbage, Absent}

ImportEmulators ==
  {e \in Emulators :
     /\ e.others = 0
     /\ ~e.reachable => (e.buckets = {} /\ e.queues = {} /\ e.strict)}

ImportWould(statePath) ==
  Range(importState(em, [faults |-> {}, collapse |-> FALSE], files, statePath).log)

InitImport ==
  /\ em \in ImportEmulators
  /\ files \in {[NoFiles EXCEPT ![UserPath] = d] : d \in Docs}
  /\ call = NoCall
  /\ result = NoResult
  /\ log = <<>>
  /\ prev = [call |-> NoCall, result |-> NoResult]
  /\ phase = "fresh"
  /\ wire = <<>>
  /\ racers = <<>>

ImportCall ==
  /\ phase = "fresh"
  /\ \E statePath \in {UserPath, ReadOnlyPath} :
       \E faults \in SUBSET ImportWould(statePath) :
         ImportState(statePath, faults)

NextImport == ImportCall

SpecImport == InitImport /\ [][NextImport]_vars

\* ----------------------------------------------------------------- session
\* One team session: a snapshot is exported, the emulator or the file may
\* change, the snapshot is imported, and imported again.
SessionEmulators ==
  {e \in Emulators :
     /\ e.others = 0
     /\ e.queues \in {{QueueOrder[i] : i \in 1..n} : n \in 0..Len(QueueOrder)}
     /\ ~e.reachable => (e.buckets = {} /\ e.queues = {})}

Init ==
  /\ em \in SessionEmulators
  /\ files = NoFiles
  /\ call = NoCall
  /\ result = NoResult
  /\ log = <<>>
  /\ prev = [call |-> NoCall, result |-> NoResult]
  /\ phase = "fresh"
  /\ wire = <<>>
  /\ racers = <<>>

SessionExport ==
  /\ phase = "fresh"
  /\ \E services \in SeqsUpTo(SessionNames, MaxServices), includeData \in BOOLEAN,
        outputPath \in {UserPath, ReadOnlyPath}, collapse \in BOOLEAN :
       ExportState(services, includeData, outputPath, {}, collapse)

\* The emulator is restarted with no persisted state.
ResetEmulator ==
  /\ phase = "exported"
  /\ em' = [em EXCEPT !.reachable = TRUE, !.buckets = {}, !.queues = {}]
  /\ phase' = "reset"
  /\ UNCHANGED <<files, call, result, log, prev, wire, racers>>

\* The emulator's container stops.
StopEmulator ==
  /\ phase = "exported"
  /\ em.reachable
  /\ em' = [em EXCEPT !.reachable = FALSE]
  /\ phase' = "stopped"
  /\ UNCHANGED <<files, call, result, log, prev, wire, racers>>

\* The snapshot file loses its tail (an interrupted copy).
TruncateFile(p) ==
  /\ phase = "exported"
  /\ files[p].t = "text"
  /\ \E n \in 0..(Len(files[p].lines) - 1) :
       files' = [files EXCEPT ![p] = Text(Take(files[p].lines, n))]
  /\ phase' = "damaged"
  /\ UNCHANGED <<em, call, result, log, prev, wire, racers>>

\* The snapshot file is overwritten with bytes that are not YAML.
CorruptFile(p) ==
  /\ phase = "exported"
  /\ files[p].t = "text"
  /\ files' = [files EXCEPT ![p] = Garbage]
  /\ phase' = "damaged"
  /\ UNCHANGED <<em, call, result, log, prev, wire, racers>>

SessionImport ==
  /\ phase # "fresh"
  /\ \E statePath \in {UserPath, ReadOnlyPath} : ImportState(statePath, {})

Next ==
  \/ SessionExport
  \/ ResetEmulator
  \/ StopEmulator
  \/ \E p \in FilePaths : TruncateFile(p)
  \/ \E p \in FilePaths : CorruptFile(p)
  \/ SessionImport

Spec == Init /\ [][Next]_vars

\* ------------------------------------------------- one call, request by request
\* One export or import call followed on the wire: every request of the call
\* is awaited, so the next one is sent when the previous one was answered,
\* and the call returns after the last answer.
WireDocs ==
  {stringify([version |-> CurrentVersion, services |-> svcs,
              metadata |-> [localstackVersion |-> "3.0", exportedServices |-> <<>>,
                            totalResources |-> 0]]) :
     svcs \in {d \in DocServices : Len(d) = 2}}

\* The requests call c sends, in the order of its awaits.
PlanOf(c, fsys) ==
  IF c.op = "export"
  THEN exportState(c.pre, [faults |-> c.faults, collapse |-> c.collapse], fsys,
                   [outputPath |-> c.outputPath, services |-> c.services,
                    includeData |-> c.includeData]).log
  ELSE importState(c.pre, [faults |-> c.faults, collapse |-> FALSE], fsys,
                   c.statePath).log

InitWire ==
  /\ em \in ExportEmulators
  /\ files \in {[NoFiles EXCEPT ![UserPath] = d] : d \in WireDocs}
  /\ call = NoCall
  /\ result = NoResult
  /\ log = <<>>
  /\ prev = [call |-> NoCall, result |-> NoResult]
  /\ phase = "fresh"
  /\ wire = <<>>
  /\ racers = <<>>

WireStart ==
  /\ phase = "fresh"
  /\ \/ \E services \in SeqsUpTo(Kinds, MaxServices), includeData \in BOOLEAN :
          call' = [op |-> "export", services |-> services, includeData |-> includeData,
                   outputPath |-> DefaultPath, faults |-> {}, collapse |-> FALSE,
                   pre |-> em, wrote |-> FALSE]
     \/ call' = [op |-> "import", statePath |-> UserPath, faults |-> {},
                 pre |-> em, from |-> phase]
  /\ phase' = "running"
  /\ UNCHANGED <<em, files, result, log, prev, wire, racers>>

SendNext(plan) ==
  /\ Len(log) < Len(plan)
  /\ wire' = Append(wire, plan[Len(log) + 1])
  /\ log' = Append(log, plan[Len(log) + 1])

\* Mutant: the requests are started without awaiting the previous one.
WireSend_NoAwait ==
  /\ phase = "running"
  /\ SendNext(PlanOf(call, files))
  /\ UNCHANGED <<em, files, call, result, prev, phase, racers>>

WireSend ==
  /\ phase = "running"
  /\ wire = <<>>
  /\ SendNext(PlanOf(call, files))
  /\ UNCHANGED <<em, files, call, result, prev, phase, racers>>

\* The emulator answers the oldest request on the wire.
WireSettle ==
  /\ wire # <<>>
  /\ wire' = Tail(wire)
  /\ UNCHANGED <<em, files, call, result, log, prev, phase, racers>>

WireExportReturns(r) ==
  /\ Len(log) = Len(r.log)
  /\ result' = r.result
  /\ files' = r.files
  /\ UNCHANGED em

WireImportReturns(r) ==
  /\ Len(log) = Len(r.log)
  /\ result' = r.result
  /\ em' = r.em
  /\ UNCHANGED files

WireReturn ==
  /\ phase = "running"
  /\ wire = <<>>
  /\ IF call.op = "export"
     THEN WireExportReturns(
            exportState(call.pre, [faults |-> call.faults, collapse |-> call.collapse],
                        files, [outputPath |-> call.outputPath, services |-> call.services,
                                includeData |-> call.includeData]))
     ELSE WireImportReturns(
            importState(call.pre, [faults |-> call.faults, collapse |-> FALSE], files,
                        call.statePath))
  /\ phase' = "returned"
  /\ UNCHANGED <<call, log, prev, wire, racers>>

NextWire ==
  \/ WireStart
  \/ WireSend
  \/ WireSettle
  \/ WireReturn

SpecWire == InitWire /\ [][NextWire]_vars

\* --------------------------------------------- two exports at the same time
\* Two exportState calls in flight on one event loop, both writing
\* outputPath.  Each call builds its snapshot, then awaits fs.writeFile (the
\* file is opened with truncation, then the text is written from offset 0),
\* then awaits fs.stat; the other call may run at every await.
Racers == {1, 2}

\* The text of b written from offset 0 over what the file holds.
Overlay(old, new) ==
  Text(new.lines \o SubSeq(old.lines, Len(new.lines) + 1, Len(old.lines)))

\* What caller p's call does on its own: performStateExport on a disk no
\* other call touches.
OwnExport(p) ==
  performStateExport(em, [faults |-> {}, collapse |-> FALSE], NoFiles,
                     [outputPath |-> UserPath, services |-> racers[p].services,
                      includeData |-> TRUE])

InitRace ==
  /\ em \in SessionEmulators
  /\ files = NoFiles
  /\ call = NoCall
  /\ result = NoResult
  /\ log = <<>>
  /\ prev = [call |-> NoCall, result |-> NoResult]
  /\ phase = "fresh"
  /\ wire = <<>>
  /\ racers \in [Racers -> [pc : {"extract"}, wrote : {0}, result : {NoResult},
                            services : SeqsUpTo(SessionNames, MaxServices)]]

Moves(p, pc, r) ==
  /\ racers' = [racers EXCEPT ![p] = [@ EXCEPT !.pc = pc, !.result = r]]
  /\ UNCHANGED <<em, call, result, log, prev, phase, wire>>

\* The extractors ran; an extractor that raised ends the call in the catch
\* of exportState, the disk untouched.
Extracted(p, own) ==
  /\ IF own.thrown
     THEN Moves(p, "done", ExportOutcome(own).result)
     ELSE Moves(p, "open", racers[p].result)
  /\ UNCHANGED files
RaceExtract(p) ==
  /\ racers[p].pc = "extract"
  /\ Extracted(p, OwnExport(p))

\* fs.writeFile opens the path for writing: the file is created or emptied.
RaceOpen(p) ==
  /\ racers[p].pc = "open"
  /\ files' = [files EXCEPT ![UserPath] = Text(<<>>)]
  /\ Moves(p, "write", racers[p].result)

\* fs.writeFile writes the text through its own descriptor, from offset 0.
Written(p, own) ==
  /\ files' = [files EXCEPT ![UserPath] = Overlay(@, own.files[UserPath])]
  /\ racers' = [racers EXCEPT ![p] =
                  [@ EXCEPT !.pc = "stat",
                            !.wrote = 1 + Cardinality({q \in Racers : racers[q].wrote > 0})]]
  /\ UNCHANGED <<em, call, result, log, prev, phase, wire>>
RaceWrite(p) ==
  /\ racers[p].pc = "write"
  /\ Written(p, OwnExport(p))

\* fs.stat reads the size of what the path holds now; the call returns.
Stated(p, own) ==
  /\ Moves(p, "done",
           ExportOutcome([own EXCEPT !.summary.fileSize = FileSize(files[UserPath])]).result)
  /\ UNCHANGED files
RaceStat(p) ==
  /\ racers[p].pc = "stat"
  /\ Stated(p, OwnExport(p))

NextRace ==
  \E p \in Racers :
    \/ RaceExtract(p)
    \/ RaceOpen(p)
    \/ RaceWrite(p)
    \/ RaceStat(p)

SpecRace == InitRace /\ [][NextRace]_vars

\* ------------------------------------------------------- the dispatch shell
\* The CallToolRequestSchema handler: one tool call, by name.
ToolNames == {"detect_docker_environment", "generate_network_config",
              "check_localstack_health", "export_localstack_state",
              "import_localstack_state"}
RequestedNames == ToolNames \cup {"export_state", ""}

\* What the handler's catch rethrows for a caught error with this message.
ToolExecutionFailed(errorMessage) ==
  [isError |-> TRUE, code |-> "InternalError",
   message |-> <<"Tool execution failed: ">> \o errorMessage]

\* The switch inside the try, ran being what the selected tool did:
\* [thrown, message, value].  The default case throws inside the try, and
\* McpError's message is "MCP error <code>: <text>".
CallToolResponse(name, ran) ==
  IF name \notin ToolNames
  THEN ToolExecutionFailed(<<"MCP error -32601: ", "Unknown tool: ", name>>)
  ELSE IF ran.thrown THEN ToolExecutionFailed(ran.message)
  ELSE [isError |-> FALSE, code |-> "", message |-> <<>>, value |-> ran.value]

Returned(value) == [thrown |-> FALSE, message |-> <<>>, value |-> value]
Threw(message) == [thrown |-> TRUE, message |-> message, value |-> NoResult]

InitShell ==
  /\ em \in SessionEmulators
  /\ files = NoFiles
  /\ call = NoCall
  /\ result = NoResult
  /\ log = <<>>
  /\ prev = [call |-> NoCall, result |-> NoResult]
  /\ phase = "fresh"
  /\ wire = <<>>
  /\ racers = <<>>

Answered(name, response) ==
  /\ call' = [op |-> "tool", name |-> name]
  /\ result' = response
  /\ phase' = "answered"
  /\ UNCHANGED <<log, prev, wire, racers>>

\* export_localstack_state: exportState({outputPath, services}).
ExportToolRan(name, r) ==
  /\ Answered(name, CallToolResponse(name, Returned(r.result)))
  /\ files' = r.files
  /\ UNCHANGED em
CallExportTool ==
  /\ phase = "fresh"
  /\ \E services \in SeqsUpTo(SessionNames, MaxServices), outputPath \in {"", UserPath} :
       ExportToolRan("export_localstack_state",
                     exportState(em, [faults |-> {}, collapse |-> FALSE], files,
                                 [outputPath |-> outputPath, services |-> services,
                                  includeData |-> TRUE]))

\* import_localstack_state: importState(statePath).
ImportToolRan(name, r) ==
  /\ Answered(name, CallToolResponse(name, Returned(r.result)))
  /\ em' = r.em
  /\ UNCHANGED files
CallImportTool ==
  /\ phase = "fresh"
  /\ ImportToolRan("import_localstack_state",
                   importState(em, [faults |-> {}, collapse |-> FALSE], files, UserPath))

\* The three other tools, which return a document or throw.
CallOtherTool ==
  /\ phase = "fresh"
  /\ \E name \in ToolNames \ {"export_localstack_state", "import_localstack_state"},
        ran \in {Returned([op |-> "document"]), Threw(<<"EACCES">>), Threw(<<>>)} :
       Answered(name, CallToolResponse(name, ran))
  /\ UNCHANGED <<em, files>>

\* A name that no case of the switch matches: no tool runs.
CallUnknownTool ==
  /\ phase = "fresh"
  /\ \E name \in RequestedNames \ ToolNames :
       Answered(name, CallToolResponse(name, Returned(NoResult)))
  /\ UNCHANGED <<em, files>>

NextShell ==
  \/ CallExportTool
  \/ CallImportTool
  \/ CallOtherTool
  \/ CallUnknownTool

SpecShell == InitShell /\ [][NextShell]_vars

\* ------------------------------------------------------- the health monitor
\* checkHealth(endpoint) against an emulator whose five endpoints each answer
\* or fail.  The timestamp of the result is left out.
MaxReported == 4
HealthStatuses == {"available", "disabled", "error"}
ReportedNames == <<"s3", "sqs", "dynamodb", "lambda", "sns", "ssm">>

\* The body of GET /_localstack/health: an object whose services field maps
\* the first n reported names to a status each ("body"), or an object
\* without a services field ("bare").
HealthBodies ==
  {[t |-> "bare"]}
  \cup {[t |-> "body", services |-> statuses] :
          statuses \in UNION {[1..n -> HealthStatuses] : n \in 0..MaxReported}}
HealthAnswers ==
  HealthBodies \cup {[t |-> "down", message |-> "connect ECONNREFUSED"], [t |-> "null"]}
HealthWorlds ==
  [health : HealthAnswers,
   diagnose : {"answers", "fails"},
   init : {"answers", "fails"},
   responseTime : {"fast", "slow", "fails"},
   config : {"docker-reuse", "docker", "fails"}]

\* Object.entries(healthData.services).forEach(... services.push(...)).
ServiceStatuses(healthData) ==
  IF healthData.t = "bare" THEN <<>>
  ELSE [i \in 1..Len(healthData.services) |->
          [service |-> ReportedNames[i], status |-> healthData.services[i]]]

CountStatus(services, status) ==
  Cardinality({i \in 1..Len(services) : services[i].status = status})

OverallFor_AtLeastHalf(unavailableServices, length) ==
  IF unavailableServices = 0 THEN "healthy"
  ELSE IF 2 * unavailableServices >= length THEN "unhealthy"
  ELSE "degraded"
\* unavailableServices > services.length / 2, the division being exact.
OverallFor(unavailableServices, length) ==
  IF unavailableServices = 0 THEN "healthy"
  ELSE IF 2 * unavailableServices > length THEN "unhealthy"
  ELSE "degraded"

DiagnoseNotes(w) ==
  IF w.diagnose = "fails" THEN <<"Unable to retrieve diagnostic information">> ELSE <<>>

CountNotes(unavailableServices, disabledServices) ==
  (IF unavailableServices > 0
   THEN <<ToString(unavailableServices) \o " services are unavailable - check container resources">>
   ELSE <<>>)
  \o (IF disabledServices > 0
      THEN <<ToString(disabledServices) \o " services are disabled - update SERVICES environment variable if needed">>
      ELSE <<>>)

addPerformanceRecommendations(w) ==
  IF w.responseTime = "fails"
  THEN <<"Performance checks failed - container may be under high load">>
  ELSE (IF w.responseTime = "slow"
        THEN <<"High response time detected - consider increasing container memory or reducing enabled services">>
        ELSE <<>>)
       \o (IF w.config = "docker"
           THEN <<"Consider setting LAMBDA_EXECUTOR=docker-reuse for faster Lambda execution">>
           ELSE <<>>)

HealthCheckResult(w, services) ==
  [overall |-> OverallFor(CountStatus(services, "error"), Len(services)),
   services |-> services,
   diagnostics |-> [diagnose |-> w.diagnose = "answers", initStatus |-> w.init = "answers"],
   recommendations |->
     DiagnoseNotes(w)
     \o CountNotes(CountStatus(services, "error"), CountStatus(services, "disabled"))
     \o addPerformanceRecommendations(w)]

performHealthCheck_DiagnoseUncaught(w) ==
  IF w.health.t = "down" THEN Threw(<<w.health.message>>)
  ELSE IF w.health.t = "null"
  THEN Threw(<<"Cannot read properties of null (reading 'services')">>)
  ELSE IF w.diagnose = "fails" THEN Threw(<<"Request failed with status code 404">>)
  ELSE Returned(HealthCheckResult(w, ServiceStatuses(w.health)))
performHealthCheck(w) ==
  IF w.health.t = "down" THEN Threw(<<w.health.message>>)
  ELSE IF w.health.t = "null"
  THEN Threw(<<"Cannot read properties of null (reading 'services')">>)
  ELSE Returned(HealthCheckResult(w, ServiceStatuses(w.health)))

getConnectionFailureRecommendations ==
  <<"Verify LocalStack container is running: docker ps | grep localstack",
    "Check if port 4566 is accessible: curl -f http://localhost:4566/_localstack/health",
    "Ensure no firewall is blocking the connection",
    "Verify LocalStack endpoint URL is correct",
    "Check Docker networking configuration",
    "Review LocalStack container logs: docker logs localstack">>

HealthAnswer(ran) ==
  IF ran.thrown
  THEN Returned([overall |-> "unhealthy", error |-> ran.message,
                 recommendations |-> getConnectionFailureRecommendations])
  ELSE Returned(ran.value)
checkHealth(w) == HealthAnswer(performHealthCheck(w))

InitHealth ==
  /\ em \in HealthWorlds
  /\ files = NoFiles
  /\ call = NoCall
  /\ result = NoResult
  /\ log = <<>>
  /\ prev = [call |-> NoCall, result |-> NoResult]
  /\ phase = "fresh"
  /\ wire = <<>>
  /\ racers = <<>>

CheckHealth ==
  /\ phase = "fresh"
  /\ call' = [op |-> "health"]
  /\ result' = checkHealth(em)
  /\ phase' = "checked"
  /\ UNCHANGED <<em, files, log, prev, wire, racers>>

NextHealth == CheckHealth

SpecHealth == InitHealth /\ [][NextHealth]_vars

\* ------------------------------------------------------ the docker detector
\* detectEnvironment(projectPath) in a project directory and against a Docker
\* daemon.  Each compose file name is absent, unreadable (access succeeds,
\* readFile fails), or readable with or without the word localstack in it.
composeFiles == <<"docker-compose.yml", "docker-compose.yaml", "compose.yml", "compose.yaml">>
DetectWorlds ==
  [docker : BOOLEAN,
   compose : [DOMAIN composeFiles -> {"absent", "unreadable", "plain", "localstack"}],
   containers : {"fails", "none", "localstack"},
   networks : {"fails", "bridge", "other"},
   dockerenv : BOOLEAN,
   sources : {<<>>, <<"s3", "sqs">>}]

EmptyObject == [k \in {} |-> ""]

\* The loop over composeFiles: it breaks at the first file it could read,
\* having set dockerComposeFound at every file it could access.
FirstRead(w) ==
  {i \in DOMAIN composeFiles :
     /\ w.compose[i] \in {"plain", "localstack"}
     /\ \A j \in 1..(i - 1) : w.compose[j] \in {"absent", "unreadable"}}
ScanCompose(w) ==
  [dockerComposeFound |->
     \E i \in DOMAIN composeFiles :
        /\ w.compose[i] # "absent"
        /\ \A j \in 1..(i - 1) : w.compose[j] \in {"absent", "unreadable"},
   suggestedConfig |->
     IF \E i \in FirstRead(w) : w.compose[i] = "localstack"
     THEN [existingComposeFile |-> composeFiles[CHOOSE i \in FirstRead(w) : TRUE]]
     ELSE EmptyObject]

detectNetworkMode(w) ==
  CASE w.networks = "fails" -> "unknown"
    [] w.networks = "bridge" -> "bridge"
    [] OTHER -> "host"

SuggestedVariables(w) ==
  [LOCALSTACK_HOST |-> IF w.dockerenv THEN "localstack" ELSE "localhost",
   EDGE_PORT |-> "4566",
   SERVICES |-> IF w.sources # <<>> THEN w.sources
                ELSE <<"s3", "lambda", "sqs", "sns", "dynamodb">>]

\* The template is held as the two values it interpolates.
generateDockerComposeTemplate(environmentVariables) ==
  [SERVICES |-> environmentVariables.SERVICES,
   LOCALSTACK_HOST |-> environmentVariables.LOCALSTACK_HOST]

\* A fresh suggestions object, built from results.dockerComposeFound alone.
generateSuggestions(results, w) ==
  [recommendedSetup |-> "docker-compose", environmentVariables |-> SuggestedVariables(w)]
  @@ (IF w.dockerenv
      THEN [note |-> "Detected container environment - using container networking"]
      ELSE EmptyObject)
  @@ (IF w.sources # <<>> THEN [detectedServices |-> w.sources] ELSE EmptyObject)
  @@ (IF ~results.dockerComposeFound
      THEN [dockerComposeTemplate |-> generateDockerComposeTemplate(SuggestedVariables(w))]
      ELSE EmptyObject)

\* results.suggestedConfig = await this.generateSuggestions(results, projectPath)
Suggested(results, w) == [results EXCEPT !.suggestedConfig = generateSuggestions(results, w)]

detectEnvironment(w) ==
  IF ~w.docker
  THEN [dockerAvailable |-> FALSE, dockerComposeFound |-> FALSE,
        locilStackContainer |-> FALSE, networkMode |-> "unknown",
        suggestedConfig |-> EmptyObject,
        issues |-> <<"Docker is not running or not accessible">>]
  ELSE Suggested([dockerAvailable |-> TRUE,
                  dockerComposeFound |-> ScanCompose(w).dockerComposeFound,
                  locilStackContainer |-> w.containers = "localstack",
                  networkMode |-> detectNetworkMode(w),
                  suggestedConfig |-> ScanCompose(w).suggestedConfig,
                  issues |-> IF w.containers = "fails"
                             THEN <<"Failed to check existing containers">> ELSE <<>>],
                 w)

InitDetect ==
  /\ em \in DetectWorlds
  /\ files = NoFiles
  /\ call = NoCall
  /\ result = NoResult
  /\ log = <<>>
  /\ prev = [call |-> NoCall, result |-> NoResult]
  /\ phase = "fresh"
  /\ wire = <<>>
  /\ racers = <<>>

DetectEnvironment ==
  /\ phase = "fresh"
  /\ call' = [op |-> "detect"]
  /\ result' = detectEnvironment(em)
  /\ phase' = "detected"
  /\ UNCHANGED <<em, files, log, prev, wire, racers>>

NextDetect == DetectEnvironment

SpecDetect == InitDetect /\ [][NextDetect]_vars

\* ------------------------------------------------- the network configuration
\* generateConfig(options): containerName and services are always given,
\* customNetworkName and enablePersistence may be left out.
ConfigServiceNames == {"s3", "sqs", "lambda"}
ConfigOptions ==
  {base @@ network @@ persistence :
     base \in [containerName : {"localstack", "ls"},
               services : SeqsUpTo(ConfigServiceNames, MaxServices)],
     network \in {EmptyObject, [customNetworkName |-> "dev"]},
     persistence \in {EmptyObject, [enablePersistence |-> TRUE],
                      [enablePersistence |-> FALSE]}}

\* services.join(','), as the pieces of the joined string.
RECURSIVE join(_)
join(services) ==
  IF services = <<>> THEN <<>>
  ELSE IF Len(services) = 1 THEN services
  ELSE <<services[1], ",">> \o join(Tail(services))

\* yaml.stringify(compose): one line per scalar, each line the pieces of its
\* text; the healthcheck block and the version line are the same in every
\* document and are left out.
ComposeLines(containerName, services, customNetworkName, enablePersistence) ==
  <<<<"services:">>, <<containerName, ":">>, <<"container_name: ", containerName>>,
    <<"image: localstack/localstack:latest">>, <<"ports:">>, <<"- 4566:4566">>,
    <<"environment:">>, <<"- SERVICES=">> \o join(services), <<"- DEBUG=1">>,
    <<"- DOCKER_HOST=unix:///var/run/docker.sock">>, <<"- LOCALSTACK_HOST=localhost">>>>
  \o (IF enablePersistence THEN <<<<"- PERSISTENCE=1">>>> ELSE <<>>)
  \o <<<<"volumes:">>, <<"- ${TMPDIR:-/tmp}/localstack:/var/lib/localstack">>,
       <<"- /var/run/docker.sock:/var/run/docker.sock">>>>
  \o (IF enablePersistence THEN <<<<"- ./localstack-data:/var/lib/localstack">>>> ELSE <<>>)
  \o <<<<"networks:">>, <<"- ", customNetworkName>>,
       <<"networks:">>, <<customNetworkName, ":">>, <<"driver: bridge">>>>

\* The destructuring in generateDockerCompose: customNetworkName has a
\* default, enablePersistence has none and is then undefined, which is falsy.
generateDockerCompose(options) ==
  ComposeLines(options.containerName, options.services,
               IF "customNetworkName" \in DOMAIN options
               THEN options.customNetworkName ELSE "localstack-network",
               IF "enablePersistence" \in DOMAIN options
               THEN options.enablePersistence ELSE FALSE)

serviceConfigs ==
  [lambda |-> {"LAMBDA_EXECUTOR", "LAMBDA_REMOVE_CONTAINERS"},
   s3 |-> {"S3_SKIP_SIGNATURE_VALIDATION"},
   dynamodb |-> {"DYNAMODB_SHARE_DB"},
   sqs |-> {"SQS_ENDPOINT_STRATEGY"}]
generateEnvironmentVariables(services) ==
  [SERVICES |-> join(services),
   names |-> {"LOCALSTACK_ENDPOINT", "AWS_DEFAULT_REGION", "AWS_ACCESS_KEY_ID",
              "AWS_SECRET_ACCESS_KEY", "SERVICES"}
             \cup UNION {serviceConfigs[services[i]] :
                           i \in {j \in DOMAIN services : services[j] \in DOMAIN serviceConfigs}}]

\* generateConfig hands the options it was given to generateDockerCompose,
\* not the values it destructured; the two guides are constant texts.
generateConfig(options) ==
  [dockerCompose |-> generateDockerCompose(options),
   environmentVariables |-> generateEnvironmentVariables(options.services)]

InitConfig ==
  /\ em = EmptyObject
  /\ files = NoFiles
  /\ call = NoCall
  /\ result = NoResult
  /\ log = <<>>
  /\ prev = [call |-> NoCall, result |-> NoResult]
  /\ phase = "fresh"
  /\ wire = <<>>
  /\ racers = <<>>

GenerateConfig ==
  /\ phase = "fresh"
  /\ \E options \in ConfigOptions :
       /\ call' = [op |-> "config", options |-> options]
       /\ result' = generateConfig(options)
  /\ phase' = "generated"
  /\ UNCHANGED <<em, files, log, prev, wire, racers>>

NextConfig == GenerateConfig

SpecConfig == InitConfig /\ [][NextConfig]_vars

\* ------------------------------------------------------------ observations
ExportDone == result.op = "export"
ExportOk == result.op = "export" /\ result.success
ImportDone == result.op = "import"
ImportOk == result.op = "import" /\ result.success

\* The services mapping of the snapshot the last export wrote, read back.
WrittenServices == ParseLines(files[result.exportPath].lines).services.v
KeysOf(entries) == {entries[i].k : i \in DOMAIN entries}

\* How many resources an item list holds: an array's length, one for a
\* lone element that is not an array.
ItemCount(items) == IF items.t = "arr" THEN Len(items.v) ELSE 1

\* The whole-kind listing request of each kind.
ListingOf(kind) ==
  CASE kind = "s3" -> Req("ListBuckets", "")
    [] kind = "dynamodb" -> Req("ListTables", "")
    [] kind = "sqs" -> Req("ListQueues", "")
    [] kind = "sns" -> Req("ListTopics", "")
    [] kind = "lambda" -> Req("ListFunctions", "")

RequestedKinds == {toLowerCase(call.services[i]) : i \in DOMAIN call.services} \cap Kinds

\* ------------------------------------------------------------------ claims
\* C1 (as claimed): after a successful export, the reported totalResources
\* equals the sum of resourceCount over the entries of the written
\* snapshot's services mapping.
C1_TotalIsSumOfWrittenCounts ==
  ExportOk => result.summary.totalResources = SumCounts(WrittenServices)

\* C2 (as claimed): neither operation raises to its caller; a failed call
\* carries an error message and the operation's troubleshooting list; and
\* each fatal case ends in success = false: an unreachable emulator (export
\* or import), an extractor exception, a file write failure, an unreadable
\* or unparseable snapshot file, a snapshot without services or metadata.
Unreadable(path) == path \notin DOMAIN files \/ files[path].t = "absent"
LacksSection(path) ==
  /\ ~Unreadable(path)
  /\ files[path].t = "text"
  /\ \/ ParseLines(files[path].lines).services.t # "obj"
     \/ ParseLines(files[path].lines).metadata.t # "obj"
C2_FatalCasesAreStructured ==
  /\ ~result.raised
  /\ (ExportDone /\ ~result.success)
       => (result.error # "" /\ result.troubleshooting = getExportTroubleshootingTips)
  /\ (ImportDone /\ ~result.success)
       => (result.error # "" /\ result.troubleshooting = getImportTroubleshootingTips)
  /\ (ExportDone /\ ~call.pre.reachable) => ~result.success
  /\ (ExportDone /\ call.outputPath = ReadOnlyPath) => ~result.success
  /\ (ImportDone /\ ~call.pre.reachable) => ~result.success
  /\ (ImportDone /\ Unreadable(call.statePath)) => ~result.success
  /\ (ImportDone /\ ~Unreadable(call.statePath) /\ files[call.statePath] = Garbage)
       => ~result.success
  /\ (ImportDone /\ LacksSection(call.statePath)) => ~result.success

\* C3 (as claimed): an export against an unreachable emulator fails and
\* writes no snapshot file, whatever kinds were requested.
C3_UnreachableExportFails ==
  (ExportDone /\ ~call.pre.reachable) => (~result.success /\ ~call.wrote)

\* C4 (as claimed): when the whole-kind listing call of a requested kind
\* fails on a reachable emulator, the export still succeeds (the output path
\* being writable) and every requested kind with an extractor is exported.
C4_ListingFailureDegrades ==
  (/\ ExportDone
   /\ call.pre.reachable
   /\ call.outputPath # ReadOnlyPath
   /\ \E k \in RequestedKinds : ListingOf(k) \in call.faults)
  => (ExportOk /\ \A i \in DOMAIN call.services :
                    toLowerCase(call.services[i]) \in Kinds
                    => call.services[i] \in KeysOf(WrittenServices))

\* C5 (as claimed): in every written snapshot, each kind's resourceCount
\* equals the number of items in its item list, whether the listing arrived
\* absent, as one bare element or as an array.
CountsMatch(entries) ==
  \A i \in DOMAIN entries : entries[i].v.resourceCount = ItemCount(entries[i].v.items)

C5_CountMatchesItemList == ExportOk => CountsMatch(WrittenServices)

\* The services mapping of the snapshot the last import read.
SnapshotServices == ParseLines(files[call.statePath].lines).services.v
BucketsIn(entries) ==
  SumCounts([i \in DOMAIN entries |->
               [k |-> entries[i].k,
                v |-> [resourceCount |-> Len(OrEmptyArr(entries[i].v.items).v)]]])
ExportedBuckets(c) ==
  IF \E i \in DOMAIN c.services : toLowerCase(c.services[i]) = "s3"
  THEN Cardinality(c.pre.buckets) ELSE 0

\* C6: a successful export of an emulator that holds only buckets, then a
\* reset of the emulator, then an import of the written snapshot: the import
\* succeeds with importedResources equal to the number of buckets exported
\* and skippedResources 0.
C6_RoundTripBuckets ==
  (/\ ImportDone
   /\ call.from = "reset"
   /\ prev.call.op = "export"
   /\ prev.result.success
   /\ call.statePath = prev.result.exportPath
   /\ prev.call.pre.queues = {}
   /\ prev.call.pre.others = 0)
  => /\ result.success
     /\ result.summary.importedResources = ExportedBuckets(prev.call)
     /\ result.summary.skippedResources = 0

C6_Witness ==
  /\ ImportOk
  /\ call.from = "reset"
  /\ prev.call.op = "export"
  /\ prev.call.collapse
  /\ Cardinality(prev.call.pre.buckets) = 1
  /\ prev.call.pre.queues = {}
  /\ result.summary.importedResources = 1
  /\ result.summary.skippedResources = 0
  /\ em.buckets = prev.call.pre.buckets

\* C7: the same snapshot, holding only object-storage entries, imported twice
\* in a row into an emulator that rejects the creation of an existing bucket:
\* the second import reports importedResources 0 and skippedResources equal
\* to the number of buckets in the snapshot.
S3Only(entries) == \A i \in DOMAIN entries : entries[i].k = "s3"
C7_SecondImportAllSkipped ==
  (/\ ImportDone
   /\ call.from = "imported"
   /\ prev.call.op = "import"
   /\ prev.result.success
   /\ prev.call.statePath = call.statePath
   /\ call.pre.strict
   /\ S3Only(SnapshotServices))
  => /\ result.success
     /\ result.summary.importedResources = 0
     /\ result.summary.skippedResources = BucketsIn(SnapshotServices)

C7_Witness ==
  /\ ImportOk
  /\ call.from = "imported"
  /\ prev.result.success
  /\ prev.result.summary.importedResources = 2
  /\ call.pre.strict
  /\ S3Only(SnapshotServices)
  /\ result.summary.importedResources = 0
  /\ result.summary.skippedResources = 2

\* A file that is not YAML, or a snapshot cut short after one of its lines.
Truncated(content) == content \in UNION {Prefixes(d) : d \in FullDocs}
CreateSent == \E i \in DOMAIN log : log[i].op \in {"CreateBucket", "CreateQueue"}
FatalImport ==
  /\ ~result.success
  /\ result.troubleshooting = getImportTroubleshootingTips
  /\ ~CreateSent

\* C8 (as claimed): the import of a file whose body is unparseable or
\* truncated returns a fatal failure with the troubleshooting tips, and no
\* create request is sent.
C8_DamagedFileIsFatal ==
  (/\ ImportDone
   /\ call.statePath = UserPath
   /\ (files[UserPath] = Garbage \/ Truncated(files[UserPath])))
  => FatalImport

\* C8 (amended): the import of a file whose body does not parse, or that is
\* cut short before the first entry of its metadata block (services or
\* metadata then being absent or null), returns a fatal failure with the
\* troubleshooting tips and sends no request at all.
CutBeforeMetadataEntries(content) ==
  /\ Truncated(content)
  /\ \/ ParseLines(content.lines).services.t # "obj"
     \/ ParseLines(content.lines).metadata.t # "obj"
C8_UnparseableOrCutBeforeMetadataIsFatal ==
  (/\ ImportDone
   /\ call.statePath = UserPath
   /\ (files[UserPath] = Garbage \/ CutBeforeMetadataEntries(files[UserPath])))
  => (FatalImport /\ log = <<>> /\ em = call.pre)

C8_Witness ==
  /\ ImportDone
  /\ call.statePath = UserPath
  /\ call.pre.reachable
  /\ call.faults = {}
  /\ CutBeforeMetadataEntries(files[UserPath])
  /\ HasLine(files[UserPath].lines, "metadata")
  /\ \E i \in DOMAIN files[UserPath].lines :
       files[UserPath].lines[i].k = "svc" /\ files[UserPath].lines[i].key = "s3"
  /\ FatalImport

\* The create request each stored bucket and queue calls for.
CreatesFor(entry) ==
  IF entry.v.t = "null" \/ OrEmptyArr(entry.v.items).t # "arr" THEN {}
  ELSE IF toLowerCase(entry.k) = "s3"
       THEN {Req("CreateBucket", OrEmptyArr(entry.v.items).v[i].name) :
               i \in DOMAIN OrEmptyArr(entry.v.items).v}
  ELSE IF toLowerCase(entry.k) = "sqs"
       THEN {Req("CreateQueue", QueueNameOf(OrEmptyArr(entry.v.items).v[i].v)) :
               i \in DOMAIN OrEmptyArr(entry.v.items).v}
  ELSE {}
ReadableSnapshot ==
  /\ ~Unreadable(call.statePath)
  /\ files[call.statePath].t = "text"
  /\ ~LacksSection(call.statePath)

\* C9: a readable snapshot imported into a reachable emulator is imported
\* whatever its version: the call succeeds and the create request of every
\* stored bucket and queue is sent; the recommendations hold the
\* version-mismatch advisory when the version differs from "1.0", and never
\* when it is "1.0".
C9_VersionMismatchIsAdvisory ==
  (/\ ImportDone
   /\ ReadableSnapshot
   /\ call.pre.reachable
   /\ Req("Health", "") \notin call.faults)
  => /\ result.success
     /\ \A i \in DOMAIN SnapshotServices :
          CreatesFor(SnapshotServices[i]) \subseteq Range(log)
     /\ (result.summary.version # Tok(CurrentVersion))
          <=> (VersionAdvice \in Range(result.recommendations))

C9_Witness ==
  /\ ImportOk
  /\ result.summary.version = Tok("2.0")
  /\ result.summary.importedResources = 2
  /\ VersionAdvice \in Range(result.recommendations)

\* C10: an export of <<"sqs">> against a reachable emulator with no queues
\* (the output path being writable) succeeds, writes a snapshot whose
\* services is exactly {sqs: {queues: [], resourceCount: 0}}, reports
\* totalResources 0 and carries the no-resources recommendation.
C10_EmptySqsExport ==
  (/\ ExportDone
   /\ call.services = <<"sqs">>
   /\ call.pre.reachable
   /\ call.pre.queues = {}
   /\ call.outputPath # ReadOnlyPath)
  => /\ result.success
     /\ WrittenServices = <<[k |-> "sqs", v |-> State(Arr(<<>>), 0)]>>
     /\ result.summary.totalResources = 0
     /\ \E i \in DOMAIN result.summary.recommendations :
          result.summary.recommendations[i] = NoResourcesAdvice

C10_Witness ==
  /\ ExportOk
  /\ call.services = <<"sqs">>
  /\ call.pre.reachable
  /\ call.pre.queues = {}
  /\ call.faults = {}
  /\ files[UserPath] # Absent
  /\ result.summary.totalResources = 0

\* What the entries of known kinds account for in an import: one per create
\* request sent, and the listed items of the kinds that are only counted.
RECURSIVE CountedItems(_)
CountedItems(entries) ==
  IF entries = <<>> THEN 0
  ELSE (IF /\ toLowerCase(entries[1].k) \in {"dynamodb", "sns", "lambda"}
           /\ entries[1].v.t # "null"
        THEN LengthOr0(entries[1].v.items) ELSE 0)
       + CountedItems(Tail(entries))
CreatesSent == Len(SelectSeq(log, LAMBDA r : r.op \in {"CreateBucket", "CreateQueue"}))

\* C11 (as claimed): every key of the services mapping of a written snapshot
\* is one of s3, dynamodb, sqs, sns, lambda, and a requested name with no
\* extractor is never a key; in an import, entries of a kind with no
\* reconstructor add nothing to importedResources, skippedResources or errors.
C11_KeysAreKnownKinds ==
  /\ ExportOk =>
       /\ KeysOf(WrittenServices) \subseteq Kinds
       /\ \A i \in DOMAIN call.services :
            toLowerCase(call.services[i]) \notin Kinds
              => call.services[i] \notin KeysOf(WrittenServices)
  /\ ImportOk =>
       /\ result.summary.importedResources + result.summary.skippedResources
            = CreatesSent + CountedItems(SnapshotServices)
       /\ \A i \in DOMAIN result.summary.errors :
            toLowerCase(result.summary.errors[i][2]) \in Kinds

\* C12 (as claimed): the servicesExported of an export summary is the number
\* of entries of the written snapshot's services mapping.
C12_ServicesExportedCountsEntries ==
  ExportOk => result.summary.servicesExported = Len(WrittenServices)

\* The snapshot with another stored total, and with no metadata section.
WithTotal(content, n) ==
  Text([i \in DOMAIN content.lines |->
          IF content.lines[i].k = "totalResources"
          THEN Line("totalResources", "", Num(n)) ELSE content.lines[i]])
WithoutMetadata(content) ==
  Text(SelectSeq(content.lines,
         LAMBDA l : l.k \notin {"metadata", "localstackVersion", "exportedServices",
                                "totalResources"}))
StoredTotalVariants(content) ==
  {WithTotal(content, 0), WithTotal(content, 7), WithoutMetadata(content)}
SameImportOutcome(r) ==
  /\ r.result.success = result.success
  /\ r.result.summary.importedResources = result.summary.importedResources
  /\ r.result.summary.skippedResources = result.summary.skippedResources
  /\ r.result.summary.errors = result.summary.errors
  /\ r.result.summary.totalResources = result.summary.totalResources

\* C13 (as claimed): the import of a snapshot gives the same success flag,
\* imported and skipped counts, errors and reported total as the import of
\* the snapshot that differs from it only in the stored total, or in having
\* no metadata section.
C13_StoredTotalIsIgnored ==
  (/\ ImportDone
   /\ ~Unreadable(call.statePath)
   /\ files[call.statePath].t = "text"
   /\ HasLine(files[call.statePath].lines, "totalResources"))
  => \A v \in StoredTotalVariants(files[call.statePath]) :
       SameImportOutcome(importState(call.pre,
                                     [faults |-> call.faults, collapse |-> FALSE],
                                     [files EXCEPT ![call.statePath] = v],
                                     call.statePath))

HealthRequests == Len(SelectSeq(log, LAMBDA r : r.op = "Health"))

\* C14: an import whose file was read and parsed into a document with
\* services and metadata sends the health request exactly once, as its first
\* request; an import that stops before that sends no request; when the health
\* request fails the import fails with the fixed not-accessible message, and
\* no create request is sent.
C14_ConnectivityCheckedOnceBeforeImport ==
  ImportDone =>
    /\ ReadableSnapshot => (HealthRequests = 1 /\ log[1] = Req("Health", ""))
    /\ ~ReadableSnapshot => log = <<>>
    /\ (ReadableSnapshot /\ (~call.pre.reachable \/ Req("Health", "") \in call.faults))
         => /\ ~result.success
            /\ result.error = NotAccessible
            /\ log = <<Req("Health", "")>>
            /\ em = call.pre

C14_Witness ==
  /\ ImportDone
  /\ ReadableSnapshot
  /\ call.pre.reachable
  /\ call.faults = {Req("Health", "")}
  /\ SnapshotServices # <<>>
  /\ CreatesFor(SnapshotServices[1]) # {}
  /\ result.error = NotAccessible
  /\ log = <<Req("Health", "")>>

\* The resources a stored state lists: the elements of its list, or the one
\* element stored bare.
ListedItems(state) ==
  IF state.t = "null" \/ ~Truthy(state.items) THEN <<>>
  ELSE IF state.items.t = "arr" THEN state.items.v
  ELSE <<state.items>>
CreateFor(kind, item) ==
  IF kind = "s3" THEN Req("CreateBucket", NameOf(item))
  ELSE Req("CreateQueue", QueueNameOf(item.v))
RECURSIVE ExpectedCreates(_)
ExpectedCreates(entries) ==
  IF entries = <<>> THEN <<>>
  ELSE (IF toLowerCase(entries[1].k) \in {"s3", "sqs"}
        THEN [i \in DOMAIN ListedItems(entries[1].v) |->
                CreateFor(toLowerCase(entries[1].k), ListedItems(entries[1].v)[i])]
        ELSE <<>>)
       \o ExpectedCreates(Tail(entries))

\* How many of the create requests reqs, sent in order to emulator e,
\* succeed.
AnswerTo(e, net, r) ==
  IF r.op = "CreateBucket" THEN CreateBucket(e, net, r.arg) ELSE CreateQueue(e, net, r.arg)
RECURSIVE Successes(_, _, _)
Successes(e, net, reqs) ==
  IF reqs = <<>> THEN 0
  ELSE (IF AnswerTo(e, net, reqs[1]).ok THEN 1 ELSE 0)
       + Successes(AnswerTo(e, net, reqs[1]).em, net, Tail(reqs))

\* C15 (as claimed): in a successful import, the create requests sent are one
\* per listed bucket and queue, in document and list order, whichever of them
\* fail; importedResources is the number that succeeded, and
\* importedResources + skippedResources accounts for every listed resource.
C15_EveryResourceAttemptedOnce ==
  ImportOk =>
    /\ Tail(log) = ExpectedCreates(SnapshotServices)
    /\ result.summary.importedResources
         = Successes(call.pre, [faults |-> call.faults, collapse |-> FALSE],
                     ExpectedCreates(SnapshotServices))
    /\ result.summary.importedResources + result.summary.skippedResources
         = Len(ExpectedCreates(SnapshotServices)) + CountedItems(SnapshotServices)

\* The entries whose reconstructor raises: a known kind whose state is null.
RaisingEntries(entries) ==
  SelectSeq(entries, LAMBDA e : toLowerCase(e.k) \in Kinds /\ e.v.t = "null")
FailureNotes(entries) ==
  [i \in DOMAIN RaisingEntries(entries) |->
     <<"Failed to import", RaisingEntries(entries)[i].k>>]

\* C16: an import that reaches the loop with a document in which the state
\* of some known kind is null succeeds; errors holds exactly one string per
\* such kind, naming it, in document order; those kinds add nothing to
\* importedResources or skippedResources; the create requests of every other
\* entry, later ones included, are sent; and the recommendations hold the
\* some-resources-failed advisory.
C16_ReconstructorFailureIsRecorded ==
  (/\ ImportDone
   /\ ReadableSnapshot
   /\ call.pre.reachable
   /\ Req("Health", "") \notin call.faults
   /\ RaisingEntries(SnapshotServices) # <<>>)
  => /\ result.success
     /\ result.summary.errors = FailureNotes(SnapshotServices)
     /\ result.summary.importedResources + result.summary.skippedResources
          = CreatesSent + CountedItems(SnapshotServices)
     /\ \A i \in DOMAIN SnapshotServices :
          CreatesFor(SnapshotServices[i]) \subseteq Range(log)
     /\ FailedAdvice \in Range(result.recommendations)

C16_Witness ==
  /\ ImportOk
  /\ Len(SnapshotServices) = 2
  /\ SnapshotServices[1].v.t = "null"
  /\ result.summary.errors = <<<<"Failed to import", "s3">>>>
  /\ Req("CreateQueue", "q") \in Range(log)
  /\ result.summary.importedResources = 1
  /\ FailedAdvice \in Range(result.recommendations)

RECURSIVE ListedCount(_)
ListedCount(entries) ==
  IF entries = <<>> THEN 0
  ELSE Len(ListedItems(entries[1].v)) + ListedCount(Tail(entries))
OnlyCountedKinds(entries) ==
  /\ entries # <<>>
  /\ \A i \in DOMAIN entries :
       toLowerCase(entries[i].k) \in {"dynamodb", "sns", "lambda"} /\ entries[i].v.t # "null"

\* C17 (as claimed): the import of a snapshot that holds only dynamodb, sns
\* and lambda states sends no request but the health probe, and reports
\* importedResources 0 and skippedResources equal to the number of tables,
\* topics and functions the states list.
C17_CountedKindsAreSkipped ==
  (ImportOk /\ OnlyCountedKinds(SnapshotServices))
  => /\ log = <<Req("Health", "")>>
     /\ em = call.pre
     /\ result.summary.importedResources = 0
     /\ result.summary.skippedResources = ListedCount(SnapshotServices)

\* The bucket records an s3 state must hold when the object listing of
\* bucket failed (none: "") and the others were answered.
BucketRecords(e, detail, failed) ==
  [i \in DOMAIN BucketList(e) |->
     [name |-> BucketList(e)[i],
      objects |-> IF detail /\ BucketList(e)[i] # failed
                  THEN [j \in DOMAIN ObjectsOf(BucketList(e)[i]) |->
                          [key |-> ObjectsOf(BucketList(e)[i])[j]]]
                  ELSE <<>>]]
EntriesOf(kind) ==
  SelectSeq(WrittenServices, LAMBDA e : toLowerCase(e.k) = kind)
WritableExport ==
  ExportDone /\ call.pre.reachable /\ call.outputPath # ReadOnlyPath

\* C18: with the detail flag set, an export in which the object listing of
\* one bucket fails succeeds, and its s3 state holds every bucket, counted,
\* the failed one with no objects and the others with theirs; an export in
\* which the describe request of a table fails succeeds with that table
\* present, schema null and itemCount 0, and one in which the count scan
\* fails with the table present and itemCount 0.
C18_ItemFailureLeavesItemEmpty ==
  /\ \A b \in BucketNames :
       (WritableExport /\ call.includeData /\ call.faults = {Req("ListObjects", b)})
       => /\ result.success
          /\ \A i \in DOMAIN EntriesOf("s3") :
               EntriesOf("s3")[i].v = State(Arr(BucketRecords(call.pre, TRUE, b)),
                                            Len(BucketList(call.pre)))
  /\ \A t \in Range(OtherOrder) :
       /\ (WritableExport /\ call.faults = {Req("DescribeTable", t)})
          => /\ result.success
             /\ \A i \in DOMAIN EntriesOf("dynamodb") :
                  EntriesOf("dynamodb")[i].v.items.v
                    = <<[tableName |-> t, schema |-> "null", itemCount |-> 0]>>
       /\ (WritableExport /\ call.faults = {Req("Scan", t)})
          => /\ result.success
             /\ \A i \in DOMAIN EntriesOf("dynamodb") :
                  EntriesOf("dynamodb")[i].v.items.v
                    = <<[tableName |-> t, schema |-> "Table", itemCount |-> 0]>>

C18_Witness ==
  /\ ExportOk
  /\ call.includeData
  /\ call.faults = {Req("ListObjects", "b")}
  /\ call.pre.buckets = {"a", "b"}
  /\ EntriesOf("s3") # <<>>
  /\ EntriesOf("s3")[1].v.resourceCount = 2
  /\ EntriesOf("s3")[1].v.items.v[1].objects = <<[key |-> "k"]>>
  /\ EntriesOf("s3")[1].v.items.v[2].objects = <<>>

\* C19: an export with the detail flag false sends no object-listing and no
\* count-scan request, every bucket it writes has an empty objects list and
\* every table itemCount 0; and whatever the flag, no request about a single
\* queue is sent: the only request of the sqs extractor is the listing.
C19_NoDetailRequestsWithoutFlag ==
  ExportDone =>
    /\ ~call.includeData =>
         /\ \A i \in DOMAIN log : log[i].op \notin {"ListObjects", "Scan"}
         /\ ExportOk =>
              /\ \A i \in DOMAIN EntriesOf("s3") :
                   EntriesOf("s3")[i].v.items.v = BucketRecords(call.pre, FALSE, "")
              /\ \A i \in DOMAIN EntriesOf("dynamodb") :
                   \A j \in DOMAIN EntriesOf("dynamodb")[i].v.items.v :
                     EntriesOf("dynamodb")[i].v.items.v[j].itemCount = 0
    /\ \A i \in DOMAIN log :
         log[i].arg \notin QueueNames \cup {QueueUrl(q) : q \in QueueNames}

C19_Witness ==
  /\ ExportOk
  /\ ~call.includeData
  /\ call.faults = {}
  /\ call.services = <<"s3", "dynamodb">>
  /\ "a" \in call.pre.buckets
  /\ call.pre.others = 1
  /\ EntriesOf("dynamodb")[1].v.items.v[1].itemCount = 0
  /\ Req("DescribeTable", "r1") \in Range(log)

\* The kind a request belongs to.
KindOfRequest(r) ==
  CASE r.op \in {"ListBuckets", "ListObjects", "CreateBucket"} -> "s3"
    [] r.op \in {"ListTables", "DescribeTable", "Scan"} -> "dynamodb"
    [] r.op \in {"ListQueues", "CreateQueue"} -> "sqs"
    [] r.op = "ListTopics" -> "sns"
    [] r.op = "ListFunctions" -> "lambda"
    [] OTHER -> "health"

\* The kinds of a call in the order it must process them: the requested
\* list, or the keys of the document.
KindsInOrder(c, fsys) ==
  IF c.op = "export" THEN [i \in DOMAIN c.services |-> toLowerCase(c.services[i])]
  ELSE [i \in DOMAIN ParseLines(fsys[c.statePath].lines).services.v |->
          toLowerCase(ParseLines(fsys[c.statePath].lines).services.v[i].k)]

\* The requests reqs fall into blocks, one kind after another in the order
\* of kinds.
RECURSIVE InBlocks(_, _)
InBlocks(kinds, reqs) ==
  IF reqs = <<>> THEN TRUE
  ELSE IF kinds = <<>> THEN FALSE
  ELSE IF KindOfRequest(reqs[1]) = kinds[1] THEN InBlocks(kinds, Tail(reqs))
  ELSE InBlocks(Tail(kinds), reqs)

\* C20: during and after a call, at most one request is unanswered; the
\* first request is the health probe, and the requests after it come kind by
\* kind, in the order of the requested list for an export and in document
\* order for an import, so that a kind's requests are all answered before
\* the next kind's first request is sent.
C20_OneRequestAtATimeKindByKind ==
  (phase \in {"running", "returned"})
  => /\ Len(wire) <= 1
     /\ log # <<>> =>
          /\ log[1] = Req("Health", "")
          /\ InBlocks(KindsInOrder(call, files), Tail(log))
     /\ wire # <<>> => wire[1] = log[Len(log)]

C20_Witness ==
  /\ phase = "running"
  /\ call.op = "export"
  /\ call.services = <<"dynamodb", "s3">>
  /\ call.includeData
  /\ Len(log) = 5
  /\ log[2].op = "ListTables"
  /\ log[3].op = "DescribeTable"
  /\ log[4].op = "Scan"
  /\ wire = <<Req("ListBuckets", "")>>

\* C21 (as claimed): when two concurrent exports to the same path have both
\* returned successfully, the file is the snapshot of the call that wrote
\* last, and each call's summary gives the total and the file size of that
\* call's own snapshot.
BothExported == \A p \in Racers : racers[p].pc = "done" /\ racers[p].result.success
C21_LastWriterWins ==
  BothExported =>
    \A p \in Racers :
      /\ racers[p].wrote = Cardinality(Racers) => files[UserPath] = OwnExport(p).files[UserPath]
      /\ racers[p].result.summary.totalResources = OwnExport(p).summary.totalResources
      /\ racers[p].result.summary.fileSize = FileSize(OwnExport(p).files[UserPath])

\* C22: a step in which importState returns, whether with success, with
\* recorded errors or with a fatal failure, leaves every file as it was.
C22_ImportLeavesFileAlone ==
  [][(call' # call /\ call'.op = "import") => files' = files]_vars

C22_Witness ==
  /\ ImportOk
  /\ call.statePath = UserPath
  /\ files[UserPath].t = "text"
  /\ Len(result.summary.errors) = 1
  /\ result.summary.importedResources = 1

\* C23: an export that fails because the s3 extractor raised (its bucket
\* listing was rejected or the emulator was unreachable) has written
\* nothing: no file exists at any path, whatever the kinds extracted before
\* the failure; and a call that did write had no extractor raise.
S3ListingRaised ==
  /\ \E i \in DOMAIN call.services : toLowerCase(call.services[i]) = "s3"
  /\ (~call.pre.reachable \/ Req("ListBuckets", "") \in call.faults)
C23_NoFileWhenExtractorRaises ==
  ExportDone =>
    /\ S3ListingRaised => (~result.success /\ ~call.wrote /\ files = NoFiles)
    /\ call.wrote => ~S3ListingRaised

C23_Witness ==
  /\ ExportDone
  /\ call.services = <<"sqs", "s3">>
  /\ call.pre.reachable
  /\ call.pre.queues # {}
  /\ call.outputPath = UserPath
  /\ call.faults = {Req("ListBuckets", "")}
  /\ ~result.success
  /\ Req("ListQueues", "") \in Range(log)
  /\ files = NoFiles

\* C24 (as claimed): a call that names none of the five tools is answered
\* with an error whose code is MethodNotFound and whose message is
\* 'Unknown tool: <name>'; a known tool that throws is answered with the
\* code InternalError.
C24_UnknownToolIsMethodNotFound ==
  (phase = "answered")
  => /\ call.name \notin ToolNames
          => /\ result.isError
             /\ result.code = "MethodNotFound"
             /\ result.message = <<"Unknown tool: ", call.name>>
     /\ (call.name \in ToolNames /\ result.isError) => result.code = "InternalError"

\* C25: checkHealth never throws.  When the health request itself fails, the
\* answer is overall 'unhealthy' with the error's message and the six
\* connection-failure recommendations.  When it answers, the overall status
\* and the service list are those of the same health response with every
\* later probe succeeding, whichever of the diagnose, init, response-time
\* and config probes fail, the answer carries no error, and it keeps every
\* recommendation of that all-succeeding run.
AllProbesAnswer ==
  [em EXCEPT !.diagnose = "answers", !.init = "answers",
             !.responseTime = "fast", !.config = "docker-reuse"]
HealthChecked == phase = "checked" /\ call.op = "health"
SameVerdict(got, calm) ==
  /\ "error" \notin DOMAIN got
  /\ got.overall = calm.overall
  /\ got.services = calm.services
  /\ Range(calm.recommendations) \subseteq Range(got.recommendations)
ErrorCount == CountStatus(result.value.services, "error")
ReportedCount == Len(result.value.services)
DisabledAsAvailable ==
  [em EXCEPT !.health.services =
     [i \in DOMAIN @ |-> IF @[i] = "disabled" THEN "available" ELSE @[i]]]
C26_OverallThresholds ==
  (HealthChecked /\ em.health.t \in {"body", "bare"})
  => /\ result.value.overall = "healthy" <=> ErrorCount = 0
     /\ result.value.overall = "unhealthy" <=> 2 * ErrorCount > ReportedCount
     /\ result.value.overall = "degraded"
          <=> (0 < ErrorCount /\ 2 * ErrorCount <= ReportedCount)
     /\ em.health.t = "body"
          => result.value.overall = checkHealth(DisabledAsAvailable).value.overall
C26_Witness ==
  /\ HealthChecked
  /\ em.health = [t |-> "body", services |-> <<"error", "disabled", "error", "disabled">>]
  /\ result.value.overall = "degraded"

\* C27 (as claimed): when the scan of the compose files reads a file whose
\* content mentions localstack, the suggestedConfig of the returned result
\* has an existingComposeFile field naming that file.
C27_ExistingComposeFileKept ==
  (phase = "detected" /\ em.docker
   /\ "existingComposeFile" \in DOMAIN ScanCompose(em).suggestedConfig)
  => /\ "existingComposeFile" \in DOMAIN result.suggestedConfig
     /\ result.suggestedConfig.existingComposeFile
          = ScanCompose(em).suggestedConfig.existingComposeFile

\* C28 (as claimed): when enablePersistence is left out of the options, the
\* compose document has the PERSISTENCE=1 environment entry and the
\* ./localstack-data volume, and is the document generated for the same
\* options with enablePersistence true.
C28_PersistenceDefaultsToTrue ==
  (phase = "generated" /\ "enablePersistence" \notin DOMAIN call.options)
  => /\ <<"- PERSISTENCE=1">> \in Range(result.dockerCompose)
     /\ <<"- ./localstack-data:/var/lib/localstack">> \in Range(result.dockerCompose)
     /\ result.dockerCompose
          = generateConfig([enablePersistence |-> TRUE] @@ call.options).dockerCompose

====
